---- MODULE Spec2Model ----
(***************************************************************************)
(* tools/check_dwarf_json.py: a one-shot script that loads a JSON file     *)
(* written by the DWARF parser and prints a report on the function offsets *)
(* it holds.  The script is sequential; the model follows its statements   *)
(* in order, one action per statement group or loop step.                  *)
(*                                                                         *)
(* JSON objects keep their key order and hold each key once, so a mapping  *)
(* is modelled as the sequence of its values in key order and a key is the *)
(* position of its value.                                                  *)
(***************************************************************************)
EXTENDS Integers, Sequences, FiniteSets, TLC

VARIABLES
    pc,                 \* the statement the script is at
    argc,               \* len(sys.argv)
    data,               \* what json.load returned (NotLoaded before)
    out,                \* the lines printed on standard output
    err,                \* the uncaught exception of the traceback ("" if none)
    exitcode,           \* the process exit status (Running while it runs)
    mi,                 \* position of the module loop (either loop over modules)
    fi,                 \* position of the function loop
    zero_count,
    valid_count,
    has_valid_offsets

vars == <<pc, argc, data, out, err, exitcode, mi, fi, zero_count, valid_count,
          has_valid_offsets>>

----------------------------------------------------------------------------
(* Bounds of the model. *)

\* Modules of mod_func2pc in a document of Docs.
MaxMods == 2
\* Functions of one document of Docs, over all its modules.
MaxFuncs == 2
\* Functions of one document of CapDocs, over all its modules.
MaxCapFuncs == 7

----------------------------------------------------------------------------
(* JSON scalars.  A value carries its type, so that 0, 0.0, "0" and "" are *)
(* four different values that == and str() treat as Python does.          *)

JStr(s) == [t |-> "str", s |-> s, n |-> 0]
JInt(n) == [t |-> "int", s |-> "", n |-> n]
\* A float with an integral value: n stands for n.0
JFlt(n) == [t |-> "float", s |-> "", n |-> n]
Null == [t |-> "null", s |-> "", n |-> 0]

IsNum(v) == v.t \in {"int", "float"}

\* Python's ==: numbers compare by value across int and float, strings by
\* content, and a string never equals a number.
PyEq(a, b) ==
    IF IsNum(a) /\ IsNum(b) THEN a.n = b.n
    ELSE a.t = b.t /\ a.s = b.s

\* Python's str() of a scalar, as an f-string formats it.
Fmt(v) ==
    CASE v.t = "str" -> v.s
      [] v.t = "int" -> ToString(v.n)
      [] v.t = "float" -> ToString(v.n) \o ".0"
      [] OTHER -> "None"

\* ListingInvalid without the comparison to the number 0.
ListingInvalidStringsOnly(offset) ==
    PyEq(offset, JStr("0x0")) \/ PyEq(offset, JStr("0"))

\* `offset == "0x0" or offset == 0 or offset == "0"`
ListingInvalid(offset) ==
    PyEq(offset, JStr("0x0")) \/ PyEq(offset, JInt(0)) \/ PyEq(offset, JStr("0"))

\* x in [a, b, ...]: some element equals x
PyInList(x, lst) == \E i \in 1..Len(lst) : PyEq(x, lst[i])

\* DiagnosisList without the empty string, as in the listing.
DiagnosisListNoEmpty == <<JStr("0x0"), JInt(0), JStr("0")>>

DiagnosisList == <<JStr("0x0"), JInt(0), JStr("0"), JStr("")>>

\* `offset not in ["0x0", 0, "0", ""]`
DiagnosisValid(offset) == ~PyInList(offset, DiagnosisList)

ShowFirst == 5

----------------------------------------------------------------------------
(* Documents: what json.load can return.                                   *)

\* Before line 14 has run, `data` is not bound.
NotLoaded == [kind |-> "none", version |-> [has |-> FALSE, v |-> Null],
              mod_func2pc |-> [has |-> FALSE, kind |-> "none", mods |-> <<>>],
              mod_func2vf |-> [has |-> FALSE, kind |-> "none", mods |-> <<>>]]
Running == -1

\* A value of mod_func2pc: a mapping of functions to offsets ("dict"), or a
\* value that is no mapping: a falsy one (null, 0, "", [], false) or a truthy
\* one (5, "abc", [1]).
Funcs(offsets) == [kind |-> "dict", funcs |-> offsets]
FalsyModule == [kind |-> "falsy", funcs |-> <<>>]
TruthyModule == [kind |-> "truthy", funcs |-> <<>>]

\* A value of mod_func2vf: something len() accepts, of that length, or not.
Sized(n) == [sized |-> TRUE, len |-> n]
Unsized == [sized |-> FALSE, len |-> 0]

\* A top-level key: absent, a mapping of modules, or a value without items().
NoKey == [has |-> FALSE, kind |-> "none", mods |-> <<>>]
Mapping(mods) == [has |-> TRUE, kind |-> "dict", mods |-> mods]
NoMapping == [has |-> TRUE, kind |-> "other", mods |-> <<>>]

NoVersion == [has |-> FALSE, v |-> Null]
Version(v) == [has |-> TRUE, v |-> v]

\* A JSON object at the top level.
Object(version, mod_func2pc, mod_func2vf) ==
    [kind |-> "dict", version |-> version, mod_func2pc |-> mod_func2pc,
     mod_func2vf |-> mod_func2vf]
\* A JSON array at the top level that holds none of the three key strings.
Array == [kind |-> "list", version |-> NoVersion, mod_func2pc |-> NoKey,
          mod_func2vf |-> NoKey]
\* A JSON number, true, false or null at the top level.
Scalar == [kind |-> "num", version |-> NoVersion, mod_func2pc |-> NoKey,
           mod_func2vf |-> NoKey]

Offsets == {JStr("0x0"), JInt(0), JStr("0"), JStr(""), JStr("0x1000"), JFlt(0)}
CapOffsets == {JStr("0x0"), JStr("0x1000")}

SeqsUpTo(S, n) == UNION {[1..k -> S] : k \in 0..n}

\* Sequences of at most m modules from the offsets O holding at most f
\* functions together, each module at least `least` of them; with `odd`,
\* modules that are no mapping too.
RECURSIVE ModSeqs(_, _, _, _, _)
ModSeqs(O, m, f, least, odd) ==
    IF m = 0 THEN {<<>>}
    ELSE {<<>>} \cup UNION {
            {<<mod>> \o rest :
                rest \in ModSeqs(O, m - 1, f - Len(mod.funcs), least, odd)} :
                mod \in {Funcs(s) : s \in {q \in SeqsUpTo(O, f) : Len(q) >= least}}
                        \cup (IF odd THEN {FalsyModule, TruthyModule} ELSE {})}

\* Values of the version and mod_func2vf keys that go with every mod_func2pc.
Plain == {<<NoVersion, NoKey>>, <<Version(JInt(2)), Mapping(<<Sized(1)>>)>>}

\* All the shapes of the version and mod_func2vf keys.
Shapes ==
    {NoVersion, Version(JInt(2))}
    \X {NoKey, NoMapping, Mapping(<<>>), Mapping(<<Sized(1)>>),
        Mapping(<<Sized(0), Unsized>>), Mapping(<<Sized(2), Sized(0)>>)}

\* mod_func2pc values that go with every shape of the other keys.
FewOffsets ==
    {NoKey, NoMapping, Mapping(<<>>), Mapping(<<Funcs(<<>>)>>),
     Mapping(<<Funcs(<<JStr("0x1000")>>)>>), Mapping(<<Funcs(<<JStr("0x0")>>)>>),
     Mapping(<<FalsyModule>>)}

\* The documents of Spec: short modules over all the offset literals, and
\* every shape a parsed file can have.
Docs ==
    {Array, Scalar}
    \cup {Object(r[1], Mapping(ms), r[2]) :
            r \in Plain, ms \in ModSeqs(Offsets, MaxMods, MaxFuncs, 0, TRUE)}
    \cup {Object(r[1], p, r[2]) : r \in Shapes, p \in FewOffsets}

\* The documents of SpecCap: modules long enough for the 5-entry allowance,
\* over one invalid and one valid literal.
CapDocs ==
    {Object(NoVersion, Mapping(ms), NoKey) :
            ms \in ModSeqs(CapOffsets, MaxMods, MaxCapFuncs, 1, FALSE)}
    \cup {Object(r[1], p, r[2]) : r \in Shapes, p \in FewOffsets}

----------------------------------------------------------------------------
(* Standard output: one record per printed line.  m and f are the module   *)
(* and function the line names (0 if none), s its interpolated text, a and *)
(* b its interpolated counts.                                              *)

Line(k, m, f, s, a, b) == [k |-> k, m |-> m, f |-> f, s |-> s, a |-> a, b |-> b]
Text(k) == Line(k, 0, 0, "", 0, 0)

Prints(lines) == out' = out \o lines

\* sys.exit(code)
Exit(code) == pc' = "exit" /\ exitcode' = code

\* An exception nothing catches: the traceback goes to standard error and
\* the interpreter exits with status 1.
Raise(exc) == Exit(1) /\ err' = exc

\* `key in data`, for the value found under the key at the top level
HasKey(value) == data.kind = "dict" /\ value.has

Init ==
    /\ pc = "argcheck"
    /\ argc \in {1, 2}
    /\ data = NotLoaded
    /\ out = <<>>
    /\ err = ""
    /\ exitcode = Running
    /\ mi = 0
    /\ fi = 0
    /\ zero_count = 0
    /\ valid_count = 0
    /\ has_valid_offsets = FALSE

\* ArgCheck without its sys.exit(1): the usage text is printed and the run
\* goes on to the load.
ArgCheckNoExit ==
    /\ pc = "argcheck"
    /\ IF argc < 2 THEN Prints(<<Text("usage")>>) ELSE UNCHANGED out
    /\ pc' = "load"
    /\ UNCHANGED <<argc, data, err, exitcode, mi, fi, zero_count, valid_count,
                   has_valid_offsets>>

\* Lines 6-10.
ArgCheck ==
    /\ pc = "argcheck"
    /\ IF argc < 2
       THEN Prints(<<Text("usage")>>) /\ Exit(1)
       ELSE pc' = "load" /\ UNCHANGED <<out, exitcode>>
    /\ UNCHANGED <<argc, data, err, mi, fi, zero_count, valid_count,
                   has_valid_offsets>>

\* What open() and json.load() raise.
LoadErrors == {"FileNotFoundError", "PermissionError", "JSONDecodeError"}

\* Lines 12-17.  The file holds one of the documents D, or cannot be read
\* or parsed.
Load(D) ==
    /\ pc = "load"
    /\ \/ \E e \in LoadErrors :
            /\ Prints(<<Line("error", 0, 0, e, 0, 0)>>)
            /\ Exit(1)
            /\ UNCHANGED data
       \/ \E d \in D :
            /\ data' = d
            /\ pc' = "header"
            /\ UNCHANGED <<out, exitcode>>
    /\ UNCHANGED <<argc, err, mi, fi, zero_count, valid_count, has_valid_offsets>>

\* Lines 19-23.
Header ==
    /\ pc = "header"
    /\ Prints(<<Text("rule"), Text("title"), Text("rule"), Text("file"),
               Text("blank")>>)
    /\ pc' = "version"
    /\ UNCHANGED <<argc, data, err, exitcode, mi, fi, zero_count, valid_count,
                   has_valid_offsets>>

\* Lines 25-30.  `in` raises TypeError on a number, a boolean or null.
VersionSection ==
    /\ pc = "version"
    /\ IF data.kind = "num"
       THEN Raise("TypeError") /\ UNCHANGED out
       ELSE /\ IF HasKey(data.version)
               THEN Prints(<<Line("version", 0, 0, Fmt(data.version.v), 0, 0),
                            Text("blank")>>)
               ELSE Prints(<<Text("no_version"), Text("blank")>>)
            /\ pc' = "offsets"
            /\ UNCHANGED <<err, exitcode>>
    /\ UNCHANGED <<argc, data, mi, fi, zero_count, valid_count, has_valid_offsets>>

\* OffsetSection taking a missing mod_func2pc for fatal: it exits after the
\* warning.
OffsetSectionFatal ==
    /\ pc = "offsets"
    /\ IF HasKey(data.mod_func2pc)
       THEN /\ Prints(<<Text("offsets_header")>>)
            /\ IF data.mod_func2pc.kind = "dict"
               THEN pc' = "module" /\ mi' = 1 /\ UNCHANGED <<err, exitcode>>
               ELSE Raise("AttributeError") /\ UNCHANGED mi
       ELSE /\ Prints(<<Text("no_mod_func2pc")>>)
            /\ Exit(1)
            /\ UNCHANGED <<err, mi>>
    /\ UNCHANGED <<argc, data, fi, zero_count, valid_count, has_valid_offsets>>

\* Lines 33-35 and 60-61: the test of the key and the start of the loop
\* over the modules.
OffsetSection ==
    /\ pc = "offsets"
    /\ IF HasKey(data.mod_func2pc)
       THEN /\ Prints(<<Text("offsets_header")>>)
            /\ IF data.mod_func2pc.kind = "dict"
               THEN pc' = "module" /\ mi' = 1 /\ UNCHANGED <<err, exitcode>>
               ELSE Raise("AttributeError") /\ UNCHANGED mi
       ELSE /\ Prints(<<Text("no_mod_func2pc")>>)
            /\ pc' = "vf"
            /\ UNCHANGED <<err, exitcode, mi>>
    /\ UNCHANGED <<argc, data, fi, zero_count, valid_count, has_valid_offsets>>

\* `not funcs`
Falsy(funcs) == funcs.kind = "falsy" \/ (funcs.kind = "dict" /\ funcs.funcs = <<>>)

\* ModuleStep with break for continue: an empty module ends the loop.
ModuleStepBreak ==
    /\ pc = "module"
    /\ LET mods == data.mod_func2pc.mods IN
       IF mi > Len(mods)
       THEN /\ pc' = "vf"
            /\ UNCHANGED <<out, err, exitcode, mi, fi, zero_count, valid_count>>
       ELSE LET funcs == mods[mi] IN
            IF Falsy(funcs)
            THEN /\ Prints(<<Text("blank"), Line("module", mi, 0, "", 0, 0),
                             Line("no_functions", mi, 0, "", 0, 0)>>)
                 /\ pc' = "vf"
                 /\ UNCHANGED <<mi, err, exitcode, fi, zero_count, valid_count>>
            ELSE /\ Prints(<<Text("blank"), Line("module", mi, 0, "", 0, 0)>>)
                 /\ zero_count' = 0
                 /\ valid_count' = 0
                 /\ IF funcs.kind = "dict"
                    THEN pc' = "func" /\ fi' = 1 /\ UNCHANGED <<err, exitcode>>
                    ELSE Raise("AttributeError") /\ UNCHANGED fi
                 /\ UNCHANGED mi
    /\ UNCHANGED <<argc, data, has_valid_offsets>>

\* Lines 35-44: one turn of the loop over the modules, up to the start of
\* the loop over its functions; the loop ends when the modules are used up.
ModuleStep ==
    /\ pc = "module"
    /\ LET mods == data.mod_func2pc.mods IN
       IF mi > Len(mods)
       THEN /\ pc' = "vf"
            /\ UNCHANGED <<out, err, exitcode, mi, fi, zero_count, valid_count>>
       ELSE LET funcs == mods[mi] IN
            IF Falsy(funcs)
            THEN /\ Prints(<<Text("blank"), Line("module", mi, 0, "", 0, 0),
                            Line("no_functions", mi, 0, "", 0, 0)>>)
                 /\ mi' = mi + 1
                 /\ UNCHANGED <<pc, err, exitcode, fi, zero_count, valid_count>>
            ELSE /\ Prints(<<Text("blank"), Line("module", mi, 0, "", 0, 0)>>)
                 /\ zero_count' = 0
                 /\ valid_count' = 0
                 /\ IF funcs.kind = "dict"
                    THEN pc' = "func" /\ fi' = 1 /\ UNCHANGED <<err, exitcode>>
                    ELSE Raise("AttributeError") /\ UNCHANGED fi
                 /\ UNCHANGED mi
    /\ UNCHANGED <<argc, data, has_valid_offsets>>

\* Shown with < for <=.
ShownOffByOne(count) == count < ShowFirst

\* `valid_count <= 5`, tested after the increment
Shown(count) == count <= ShowFirst

\* Lines 44-51: one turn of the loop over the functions of module mi.
FuncStep ==
    /\ pc = "func"
    /\ fi <= Len(data.mod_func2pc.mods[mi].funcs)
    /\ LET offset == data.mod_func2pc.mods[mi].funcs[fi] IN
       IF ListingInvalid(offset)
       THEN /\ zero_count' = zero_count + 1
            /\ Prints(<<Line("invalid", mi, fi, Fmt(offset), 0, 0)>>)
            /\ UNCHANGED valid_count
       ELSE /\ valid_count' = valid_count + 1
            /\ IF Shown(valid_count')
               THEN Prints(<<Line("valid", mi, fi, Fmt(offset), 0, 0)>>)
               ELSE UNCHANGED out
            /\ UNCHANGED zero_count
    /\ fi' = fi + 1
    /\ UNCHANGED <<pc, argc, data, err, exitcode, mi, has_valid_offsets>>

\* Lines 53-59: after the last function of module mi.
ModuleSummary ==
    /\ pc = "func"
    /\ fi > Len(data.mod_func2pc.mods[mi].funcs)
    /\ Prints((IF valid_count > ShowFirst
              THEN <<Line("more", mi, 0, "", valid_count - ShowFirst, 0)>>
              ELSE <<>>)
             \o <<Text("blank"), Line("summary", mi, 0, "", valid_count, zero_count)>>
             \o (IF zero_count > 0
                 THEN <<Line("zero_warning", mi, 0, "", 0, 0)>>
                 ELSE <<>>))
    /\ mi' = mi + 1
    /\ pc' = "module"
    /\ UNCHANGED <<argc, data, err, exitcode, fi, zero_count, valid_count,
                   has_valid_offsets>>

\* Lines 63-68 and 71-72.
VfSection ==
    /\ pc = "vf"
    /\ IF HasKey(data.mod_func2vf)
       THEN /\ Prints(<<Text("blank"), Text("vf_header")>>)
            /\ IF data.mod_func2vf.kind = "dict"
               THEN pc' = "vf_module" /\ mi' = 1 /\ UNCHANGED <<err, exitcode>>
               ELSE Raise("AttributeError") /\ UNCHANGED mi
       ELSE /\ Prints(<<Text("blank"), Text("no_mod_func2vf")>>)
            /\ pc' = "diagnosis"
            /\ UNCHANGED <<err, exitcode, mi>>
    /\ UNCHANGED <<argc, data, fi, zero_count, valid_count, has_valid_offsets>>

\* Lines 68-70: one turn of the loop over the modules of mod_func2vf.
VfModuleStep ==
    /\ pc = "vf_module"
    /\ LET mods == data.mod_func2vf.mods IN
       IF mi > Len(mods)
       THEN pc' = "diagnosis" /\ UNCHANGED <<out, err, exitcode, mi>>
       ELSE IF mods[mi].sized
            THEN /\ Prints(<<Line("vf_module", mi, 0, "", 0, 0),
                            Line("vf_count", mi, 0, "", mods[mi].len, 0)>>)
                 /\ mi' = mi + 1
                 /\ UNCHANGED <<pc, err, exitcode>>
            ELSE /\ Prints(<<Line("vf_module", mi, 0, "", 0, 0)>>)
                 /\ Raise("TypeError")
                 /\ UNCHANGED mi
    /\ UNCHANGED <<argc, data, fi, zero_count, valid_count, has_valid_offsets>>

\* Lines 74-82: the heading, the flag and the start of the scan.  A
\* mod_func2pc that is no mapping has ended the run at line 35.
Diagnosis ==
    /\ pc = "diagnosis"
    /\ Prints(<<Text("blank"), Text("rule"), Text("diagnosis"), Text("rule")>>)
    /\ has_valid_offsets' = FALSE
    /\ IF HasKey(data.mod_func2pc)
       THEN pc' = "scan_module" /\ mi' = 1
       ELSE pc' = "verdict" /\ UNCHANGED mi
    /\ UNCHANGED <<argc, data, err, exitcode, fi, zero_count, valid_count>>

\* Lines 82-83: the next module of the scan; funcs.items() raises on a
\* module that is no mapping.
ScanModule ==
    /\ pc = "scan_module"
    /\ LET mods == data.mod_func2pc.mods IN
       IF mi > Len(mods)
       THEN pc' = "verdict" /\ UNCHANGED <<err, exitcode, fi>>
       ELSE IF mods[mi].kind = "dict"
            THEN pc' = "scan_func" /\ fi' = 1 /\ UNCHANGED <<err, exitcode>>
            ELSE Raise("AttributeError") /\ UNCHANGED fi
    /\ UNCHANGED <<argc, data, out, mi, zero_count, valid_count, has_valid_offsets>>

\* ScanFunc assigning the test to the flag on every turn, without break.
ScanFuncAssign ==
    /\ pc = "scan_func"
    /\ LET funcs == data.mod_func2pc.mods[mi].funcs IN
       IF fi > Len(funcs)
       THEN /\ pc' = "scan_module" /\ mi' = mi + 1
            /\ UNCHANGED <<fi, has_valid_offsets>>
       ELSE /\ has_valid_offsets' = DiagnosisValid(funcs[fi])
            /\ fi' = fi + 1
            /\ UNCHANGED <<pc, mi>>
    /\ UNCHANGED <<argc, data, out, err, exitcode, zero_count, valid_count>>

\* Lines 83-86: one turn of the inner loop of the scan; break leaves the
\* inner loop only, so the scan goes on with the next module.
ScanFunc ==
    /\ pc = "scan_func"
    /\ LET funcs == data.mod_func2pc.mods[mi].funcs IN
       IF fi > Len(funcs)
       THEN /\ pc' = "scan_module" /\ mi' = mi + 1
            /\ UNCHANGED <<fi, has_valid_offsets>>
       ELSE IF DiagnosisValid(funcs[fi])
            THEN /\ has_valid_offsets' = TRUE
                 /\ pc' = "scan_module" /\ mi' = mi + 1
                 /\ UNCHANGED fi
            ELSE /\ fi' = fi + 1
                 /\ UNCHANGED <<pc, mi, has_valid_offsets>>
    /\ UNCHANGED <<argc, data, out, err, exitcode, zero_count, valid_count>>

SuccessLines == <<Text("has_valid"), Text("should_work")>>

FailureLines ==
    <<Text("no_valid"), Text("parsing_failed"), Text("blank"),
      Text("reasons"), Text("reason_stripped"), Text("reason_no_symbols"),
      Text("reason_parse_error"), Text("blank"),
      Text("solution"), Text("install_symbols"), Text("enable_debuginfod"),
      Text("debuginfod_urls"), Text("regenerate"), Text("osdtrace_command")>>

\* Lines 88-107, and the end of the script.
Verdict ==
    /\ pc = "verdict"
    /\ Prints((IF has_valid_offsets THEN SuccessLines ELSE FailureLines)
             \o <<Text("blank")>>)
    /\ Exit(0)
    /\ UNCHANGED <<argc, data, err, mi, fi, zero_count, valid_count,
                   has_valid_offsets>>

Steps ==
    \/ ArgCheck
    \/ Header
    \/ VersionSection
    \/ OffsetSection
    \/ ModuleStep
    \/ FuncStep
    \/ ModuleSummary
    \/ VfSection
    \/ VfModuleStep
    \/ Diagnosis
    \/ ScanModule
    \/ ScanFunc
    \/ Verdict

Next == Load(Docs) \/ Steps

Spec == Init /\ [][Next]_vars

NextCap == Load(CapDocs) \/ Steps

SpecCap == Init /\ [][NextCap]_vars

----------------------------------------------------------------------------
(* Reading the run: what was printed, and where the script is.             *)

Done == pc = "exit"
Loaded == data.kind # "none"
LoadFailed == Done /\ argc >= 2 /\ ~Loaded

Printed(k) == \E i \in DOMAIN out : out[i].k = k
Times(k) == Cardinality({i \in DOMAIN out : out[i].k = k})

\* A sequence s holds the sequence w as a block of consecutive lines.
Holds(s, w) ==
    \E i \in 0..(Len(s) - Len(w)) : \A j \in 1..Len(w) : s[i + j] = w[j]

ReportKinds ==
    {"rule", "title", "file", "blank", "version", "no_version", "offsets_header",
     "no_mod_func2pc", "module", "no_functions", "invalid", "valid", "more",
     "summary", "zero_warning", "vf_header", "vf_module", "vf_count",
     "no_mod_func2vf", "diagnosis"}
     \cup {SuccessLines[i].k : i \in DOMAIN SuccessLines}
     \cup {FailureLines[i].k : i \in DOMAIN FailureLines}

ListingKinds ==
    {"module", "no_functions", "invalid", "valid", "more", "summary", "zero_warning"}

\* The lines of the offset section that name module m, in print order.
Listing(m) == SelectSeq(out, LAMBDA l : l.m = m /\ l.k \in ListingKinds)

Only(s, kinds) == SelectSeq(s, LAMBDA l : l.k \in kinds)

SaidSuccess == Holds(out, SuccessLines)
SaidFailure == Holds(out, FailureLines)

\* The modules of mod_func2pc, when the key is there and holds a mapping.
Modules == IF data.mod_func2pc.kind = "dict" THEN data.mod_func2pc.mods ELSE <<>>

\* Every (module, function) of the document whose module is a mapping.
Functions ==
    UNION {{<<m, f>> : f \in DOMAIN Modules[m].funcs} : m \in DOMAIN Modules}
OffsetAt(mf) == Modules[mf[1]].funcs[mf[2]]

\* The document is a Report Document of the data model: an object whose
\* mod_func2pc and mod_func2vf, when present, map modules to mappings.
ReportDocument ==
    /\ data.kind = "dict"
    /\ data.mod_func2pc.has =>
         /\ data.mod_func2pc.kind = "dict"
         /\ \A m \in DOMAIN Modules : Modules[m].kind = "dict"
    /\ data.mod_func2vf.has =>
         /\ data.mod_func2vf.kind = "dict"
         /\ \A m \in DOMAIN data.mod_func2vf.mods : data.mod_func2vf.mods[m].sized

\* The script has left the offset section behind.
PastListing ==
    \/ pc \in {"vf", "vf_module", "diagnosis", "scan_module", "scan_func", "verdict"}
    \/ Done /\ (Printed("vf_header") \/ Printed("no_mod_func2vf"))

\* The loop over the modules has finished its turn for module m.
Listed(m) ==
    /\ m \in DOMAIN Modules
    /\ \/ PastListing
       \/ /\ pc \in {"module", "func"} \/ (Done /\ Printed("offsets_header"))
          /\ mi > m

\* The literals the specification names, read as JSON values: the strings
\* "0x0" and "0", and any number equal to zero.
ZeroLiteral(o) == o \in {JStr("0x0"), JStr("0")} \/ (o.t \in {"int", "float"} /\ o.n = 0)
EmptyString(o) == o = JStr("")

----------------------------------------------------------------------------
(* Properties of the run.                                                  *)

\* C1: every run whose load step succeeds reaches the diagnosis section and
\* exits with status 0, whatever the parser returned.
C1_LoadedRunsDiagnoseAndExit0 ==
    (Done /\ Loaded) => (exitcode = 0 /\ Printed("diagnosis") /\ err = "")

\* C2: without a path argument the run prints the usage text and exits 1
\* before any file is opened and before any report line is printed.
C2_UsageExit ==
    argc < 2 =>
        /\ ~Loaded
        /\ \/ pc = "argcheck" /\ out = <<>> /\ exitcode = Running
           \/ Done /\ out = <<Text("usage")>> /\ exitcode = 1 /\ err = ""

C2_Witness == argc < 2 /\ Done /\ Printed("usage")

\* C3: a failed load prints the error with its cause and exits 1 with no
\* report line, and a failed load is the only way a run that passed the
\* argument check ends with a non-zero status.
C3_OnlyLoadFailureIsFatal ==
    /\ LoadFailed =>
         /\ exitcode = 1
         /\ \E e \in LoadErrors : out = <<Line("error", 0, 0, e, 0, 0)>>
    /\ (Done /\ argc >= 2 /\ exitcode # 0) => LoadFailed

\* C4: every successfully loaded document gets exactly one verdict: success
\* if and only if some function of some module has an offset outside
\* {"0x0", 0, "0", ""}, and otherwise failure with its reasons and steps.
C4_OneVerdictPerLoadedDocument ==
    (Done /\ Loaded) =>
        LET valid == \E mf \in Functions :
                        ~ZeroLiteral(OffsetAt(mf)) /\ ~EmptyString(OffsetAt(mf))
        IN /\ Times("has_valid") + Times("no_valid") = 1
           /\ valid => SaidSuccess
           /\ ~valid => SaidFailure

\* C5: a valid document without the mod_func2pc key gets the top-level
\* warning, no line of the offset section, a processed variable-field
\* section, a failure diagnosis and exit status 0.
C5_MissingOffsetsKey ==
    (ReportDocument /\ ~data.mod_func2pc.has) =>
        /\ \A i \in DOMAIN out : out[i].k \notin ListingKinds \cup {"offsets_header"}
        /\ exitcode \in {Running, 0}
        /\ Done =>
             /\ exitcode = 0
             /\ Times("no_mod_func2pc") = 1
             /\ IF data.mod_func2vf.has
                THEN /\ Times("vf_header") = 1
                     /\ Only(out, {"vf_count"}) =
                            [m \in DOMAIN data.mod_func2vf.mods |->
                                Line("vf_count", m, 0, "", data.mod_func2vf.mods[m].len, 0)]
                ELSE Times("no_mod_func2vf") = 1
             /\ SaidFailure
             /\ ~Printed("has_valid")

C5_Witness ==
    /\ ReportDocument /\ ~data.mod_func2pc.has /\ Done
    /\ Len(data.mod_func2vf.mods) = 2
    /\ Printed("no_mod_func2pc") /\ Printed("vf_count") /\ SaidFailure

\* The number of valid entries among the first f functions.
Rank(funcs, f) == Cardinality({g \in 1..f : ~ZeroLiteral(funcs[g])})
TotalValid(funcs) == Rank(funcs, Len(funcs))
TotalInvalid(funcs) == Cardinality({g \in DOMAIN funcs : ZeroLiteral(funcs[g])})

\* C6: of each module the valid entries printed are the first
\* min(5, total_valid) valid entries in key order, whatever invalid entries
\* lie between them; a suppressed-count line is printed, after all the
\* per-function lines, exactly when total_valid > 5, and reports
\* total_valid - 5.
C6_FirstFiveValidShown ==
    \A m \in DOMAIN Modules : Listed(m) =>
        LET funcs == Modules[m].funcs
            lines == Listing(m)
            shown == Only(lines, {"valid"})
        IN /\ Len(shown) = IF TotalValid(funcs) < 5 THEN TotalValid(funcs) ELSE 5
           /\ \A i \in DOMAIN shown :
                /\ shown[i].f \in DOMAIN funcs
                /\ ~ZeroLiteral(funcs[shown[i].f])
                /\ Rank(funcs, shown[i].f) = i
                /\ shown[i].s = Fmt(funcs[shown[i].f])
           /\ Only(lines, {"more"}) =
                IF TotalValid(funcs) > 5
                THEN <<Line("more", m, 0, "", TotalValid(funcs) - 5, 0)>>
                ELSE <<>>
           /\ \A i, j \in DOMAIN lines :
                (lines[i].k = "more" /\ lines[j].k \in {"valid", "invalid"}) => j < i

C6_Witness ==
    \E m \in DOMAIN Modules :
        /\ Listed(m)
        /\ TotalValid(Modules[m].funcs) > 5
        /\ \E f \in DOMAIN Modules[m].funcs :
                ZeroLiteral(Modules[m].funcs[f]) /\ Rank(Modules[m].funcs, f) < 5
        /\ \E i \in DOMAIN out : out[i].k = "more" /\ out[i].m = m

\* C7: in a non-empty module a function is invalid exactly when its offset
\* equals "0x0", 0 or "0"; every invalid entry is printed; the summary
\* counts the invalid and the other functions of that module alone; the
\* zero-offset warning is printed exactly when the module has an invalid
\* function.
C7_ModuleCounts ==
    \A m \in DOMAIN Modules : (Listed(m) /\ Modules[m].funcs # <<>>) =>
        LET funcs == Modules[m].funcs
            lines == Listing(m)
            invalid == Only(lines, {"invalid"})
        IN /\ Len(invalid) = TotalInvalid(funcs)
           /\ \A f \in DOMAIN funcs :
                ZeroLiteral(funcs[f]) <=>
                    \E i \in DOMAIN invalid :
                        invalid[i] = Line("invalid", m, f, Fmt(funcs[f]), 0, 0)
           /\ Only(lines, {"summary"}) =
                <<Line("summary", m, 0, "", Len(funcs) - TotalInvalid(funcs),
                       TotalInvalid(funcs))>>
           /\ Only(lines, {"zero_warning"}) =
                IF TotalInvalid(funcs) > 0
                THEN <<Line("zero_warning", m, 0, "", 0, 0)>>
                ELSE <<>>
           /\ lines[1].k = "module"
           /\ \A i \in DOMAIN lines :
                lines[i].k \in {"valid", "invalid", "more"} =>
                    \A j \in DOMAIN lines :
                        lines[j].k \in {"summary", "zero_warning"} => i < j

C7_Witness ==
    /\ Done /\ exitcode = 0 /\ Len(Modules) = 2
    /\ \A m \in DOMAIN Modules : Listed(m) /\ Len(Modules[m].funcs) = 1
    /\ ZeroLiteral(Modules[1].funcs[1]) /\ ~ZeroLiteral(Modules[2].funcs[1])
    /\ Times("summary") = 2 /\ Times("zero_warning") = 1

\* C8: a module without functions gets the "No functions found!" warning
\* and nothing more; the modules after it are still reported; it adds no
\* valid offset, so a document whose modules are all empty ends with the
\* failure diagnosis and exit status 0.
C8_EmptyModule ==
    /\ \A m \in DOMAIN Modules : (Listed(m) /\ Falsy(Modules[m])) =>
            Listing(m) = <<Line("module", m, 0, "", 0, 0),
                           Line("no_functions", m, 0, "", 0, 0)>>
    /\ (ReportDocument /\ (PastListing \/ Done) /\ Loaded) =>
            \A m \in DOMAIN Modules :
                Only(Listing(m), {"module"}) = <<Line("module", m, 0, "", 0, 0)>>
    /\ (ReportDocument /\ Done
            /\ \A m \in DOMAIN Modules : Modules[m] = Funcs(<<>>)) =>
            exitcode = 0 /\ SaidFailure /\ ~Printed("has_valid")

C8_Witness ==
    /\ Done /\ ReportDocument /\ Len(Modules) = 2
    /\ Modules[1] = Funcs(<<>>) /\ Modules[2] # Funcs(<<>>)
    /\ Printed("no_functions") /\ Printed("summary")

\* C9: the empty string is valid in the listing and invalid in the
\* diagnosis, and no other offset is treated differently by the two.  So a
\* success verdict comes with a summary of valid >= 1, and a failure verdict
\* comes with such a summary only when every offset the listing took for
\* valid is the empty string.
C9_EmptyStringAsymmetry ==
    LET counted == {mf \in Functions : Listed(mf[1]) /\ ~ZeroLiteral(OffsetAt(mf))}
        some_valid == \E i \in DOMAIN out : out[i].k = "summary" /\ out[i].a >= 1
    IN /\ \A mf \in Functions : (Listed(mf[1]) /\ EmptyString(OffsetAt(mf))) =>
            /\ \A i \in DOMAIN out :
                    ~(out[i].k = "invalid" /\ out[i].m = mf[1] /\ out[i].f = mf[2])
            /\ \E i \in DOMAIN out :
                    out[i].k = "summary" /\ out[i].m = mf[1] /\ out[i].a >= 1
       /\ (Done /\ exitcode = 0) =>
            /\ SaidSuccess <=> \E mf \in counted : ~EmptyString(OffsetAt(mf))
            /\ SaidSuccess => some_valid
            /\ (SaidFailure /\ some_valid) =>
                    \A mf \in counted : EmptyString(OffsetAt(mf))

C9_Witness ==
    /\ Done /\ exitcode = 0 /\ SaidFailure
    /\ \E i \in DOMAIN out : out[i].k = "summary" /\ out[i].a >= 1
    /\ \E mf \in Functions : EmptyString(OffsetAt(mf))

\* C10: has_valid_offsets starts false, turns true only at an offset outside
\* {"0x0", 0, "0", ""} and is never reset afterwards; the verdict is
\* therefore a function of the set of offsets of the document alone.
C10_FlagMonotone ==
    [][/\ has_valid_offsets => has_valid_offsets'
       /\ (~has_valid_offsets /\ has_valid_offsets') =>
            /\ pc = "scan_func"
            /\ <<mi, fi>> \in Functions
            /\ ~ZeroLiteral(OffsetAt(<<mi, fi>>))
            /\ ~EmptyString(OffsetAt(<<mi, fi>>))
       /\ (pc = "verdict") =>
            LET offsets == {OffsetAt(mf) : mf \in Functions}
                verdict == \E o \in offsets : ~ZeroLiteral(o) /\ ~EmptyString(o)
            IN /\ has_valid_offsets = verdict
               /\ verdict => SaidSuccess' /\ ~SaidFailure'
               /\ ~verdict => SaidFailure' /\ ~SaidSuccess'
      ]_vars

C10_Witness ==
    /\ Done /\ exitcode = 0 /\ SaidSuccess /\ Len(Modules) = 2
    /\ \E f \in DOMAIN Modules[1].funcs :
            ~ZeroLiteral(Modules[1].funcs[f]) /\ ~EmptyString(Modules[1].funcs[f])
    /\ \A f \in DOMAIN Modules[2].funcs :
            ZeroLiteral(Modules[2].funcs[f]) \/ EmptyString(Modules[2].funcs[f])
    /\ Modules[2].funcs # <<>>

====
